---- MODULE Spec2Model ----
(***************************************************************************)
(* Model of src/main.py: the weather sticker generator.                    *)
(*   - update_stickers as a state machine (per-city loop, then the         *)
(*     reconciliation of the remote sticker set);                          *)
(*   - _get_background_path, _draw_text_block and the date/time strings    *)
(*     as operators computed the way the code computes them.               *)
(***************************************************************************)
EXTENDS Integers, Sequences, FiniteSets, TLC

(* ------------------------------ bounds -------------------------------- *)

\* Number of entries of CITIES that a run processes (the list has 10).
NumCities == 2

\* Largest number of stickers the remote set holds before the run.
MaxOld == 3

(* ----------------------------- constants ------------------------------ *)

IMAGES_DIR == "images/"

BG_PREFIX == "bg_"

BG_FALLBACK_1 == "bg_fallback.png"

BG_FALLBACK_2 == "bg_01d.png"

\* Optional values: None is the empty sequence, a value v is <<v>>.
None == <<>>

Some(v) == <<v>>

BlockLayout(x, y, font_size, right_align) ==
    [x |-> x, y |-> y, font_size |-> font_size, right_align |-> right_align]

CITY_LAYOUT == BlockLayout(Some(50), Some(400), 58, FALSE)

TEMP_LAYOUT == BlockLayout(Some(80), Some(30), 140, TRUE)

DEGREE_LAYOUT == BlockLayout(Some(430), Some(56), 42, FALSE)

DAY_LAYOUT == BlockLayout(Some(396), Some(310), 48, FALSE)

MONTH_LAYOUT == BlockLayout(Some(396), Some(280), 30, FALSE)

TIME_LAYOUT == BlockLayout(Some(400), Some(366), 20, FALSE)

\* The emoji of every configured city is the same cityscape sign; the
\* query of Kushnarenkovo is written here without its diaeresis.
CityConfig(name, query, output, tz_offset_hours) ==
    [name |-> name, query |-> query, emoji |-> "cityscape", output |-> output,
     tz_offset_hours |-> tz_offset_hours]

ConfiguredCities ==
    << CityConfig("Ufa", "Ufa,RU", "sticker_ufa.png", 5),
       CityConfig("Neftekamsk", "Neftekamsk,RU", "sticker_neftekamsk.png", 5),
       CityConfig("Dyurtyuli", "Dyurtyuli,RU", "sticker_dyurtyuli.png", 5),
       CityConfig("Mesyagutovo", "Mesyagutovo,RU", "sticker_mesyagutovo.png", 5),
       CityConfig("Kushnarenkovo", "Kushnarenkovo, RU", "sticker_kushnarenkovo.png", 5),
       CityConfig("Tuymazy", "Tuymazy,RU", "sticker_tuymazy.png", 5),
       CityConfig("Sterlitamak", "Sterlitamak,RU", "sticker_sterlitamak.png", 5),
       CityConfig("Salavat", "Salavat,RU", "sticker_salavat.png", 5),
       CityConfig("Meleuz", "Meleuz,RU", "sticker_meleuz.png", 5),
       CityConfig("Kumertau", "Kumertau,RU", "sticker_kumertau.png", 5) >>

\* The cities of a run: the first NumCities configured ones, in order.
CITIES == SubSeq(ConfiguredCities, 1, NumCities)

Min(a, b) == IF a < b THEN a ELSE b

(* ------------------------- date and time ------------------------------ *)

DateTime(y, mo, d, h, mi) ==
    [year |-> y, month |-> mo, day |-> d, hour |-> h, minute |-> mi]

IsLeap(y) == (y % 4 = 0 /\ y % 100 # 0) \/ y % 400 = 0

DaysInMonth(y, m) ==
    IF m = 2 THEN (IF IsLeap(y) THEN 29 ELSE 28)
    ELSE IF m \in {4, 6, 9, 11} THEN 30 ELSE 31

NextDay(dt) ==
    IF dt.day < DaysInMonth(dt.year, dt.month)
    THEN [dt EXCEPT !.day = dt.day + 1]
    ELSE IF dt.month < 12
         THEN [dt EXCEPT !.day = 1, !.month = dt.month + 1]
         ELSE [dt EXCEPT !.day = 1, !.month = 1, !.year = dt.year + 1]

PrevDay(dt) ==
    IF dt.day > 1
    THEN [dt EXCEPT !.day = dt.day - 1]
    ELSE IF dt.month > 1
         THEN [dt EXCEPT !.day = DaysInMonth(dt.year, dt.month - 1),
                         !.month = dt.month - 1]
         ELSE [dt EXCEPT !.day = 31, !.month = 12, !.year = dt.year - 1]

RECURSIVE AddDays(_, _)
AddDays(dt, n) ==
    IF n = 0 THEN dt
    ELSE IF n > 0 THEN AddDays(NextDay(dt), n - 1)
    ELSE AddDays(PrevDay(dt), n + 1)

\* A faulty addition that wraps the hour and forgets the day carry.
AddHoursNoCarry(dt, hours) == [dt EXCEPT !.hour = (dt.hour + hours) % 24]

\* utc_now + timedelta(hours=hours): the hour wraps modulo 24 and the
\* whole days carry into the date.
AddHours(dt, hours) ==
    AddDays([dt EXCEPT !.hour = (dt.hour + hours) % 24],
            (dt.hour + hours) \div 24)

Digit == <<"0", "1", "2", "3", "4", "5", "6", "7", "8", "9">>

\* "%02d" of a number in 0..99.
Pad2(n) == Digit[(n \div 10) + 1] \o Digit[(n % 10) + 1]

MonthAbbr ==
    <<"Jan", "Feb", "Mar", "Apr", "May", "Jun",
      "Jul", "Aug", "Sep", "Oct", "Nov", "Dec">>

\* strftime("%d"), strftime("%b"), strftime("%H:%M")
StrfDay(dt) == Pad2(dt.day)

StrfMonth(dt) == MonthAbbr[dt.month]

StrfTime(dt) == Pad2(dt.hour) \o ":" \o Pad2(dt.minute)

\* Values datetime.utcnow() returns in the model.
UtcNows ==
    { DateTime(2024, 12, 7, 20, 55),
      DateTime(2024, 12, 31, 23, 30),
      DateTime(2024, 2, 28, 19, 0),
      DateTime(2025, 2, 28, 21, 5),
      DateTime(2025, 6, 15, 10, 5) }

(* ------------------------- background lookup -------------------------- *)

BgCandidate(icon_code) == IMAGES_DIR \o BG_PREFIX \o icon_code \o ".png"

Fb1 == IMAGES_DIR \o BG_FALLBACK_1

Fb2 == IMAGES_DIR \o BG_FALLBACK_2

\* A faulty lookup that tries the second fallback before the first.
GetBackgroundPathSwapped(icon_code, fs) ==
    IF icon_code # "" /\ BgCandidate(icon_code) \in fs
    THEN [ok |-> TRUE, path |-> BgCandidate(icon_code), named |-> {}]
    ELSE IF Fb2 \in fs THEN [ok |-> TRUE, path |-> Fb2, named |-> {}]
    ELSE IF Fb1 \in fs THEN [ok |-> TRUE, path |-> Fb1, named |-> {}]
    ELSE [ok |-> FALSE, path |-> "",
          named |-> {BgCandidate(icon_code), Fb1, Fb2}]

\* _get_background_path: the path returned, or the FileNotFoundError with
\* the paths its message names.  fs is the set of existing files.
GetBackgroundPath(icon_code, fs) ==
    IF icon_code # "" /\ BgCandidate(icon_code) \in fs
    THEN [ok |-> TRUE, path |-> BgCandidate(icon_code), named |-> {}]
    ELSE IF Fb1 \in fs THEN [ok |-> TRUE, path |-> Fb1, named |-> {}]
    ELSE IF Fb2 \in fs THEN [ok |-> TRUE, path |-> Fb2, named |-> {}]
    ELSE [ok |-> FALSE, path |-> "",
          named |-> {BgCandidate(icon_code), Fb1, Fb2}]

\* Icon codes the weather provider returns in the model ("" when omitted).
IconCodes == {"", "01d", "02n"}

\* Background files that may or may not exist under images/.
BgFiles == {BgCandidate(c) : c \in IconCodes} \cup {Fb1, Fb2}

(* --------------------------- text placement --------------------------- *)

\* A faulty placement that treats a right-aligned x as a left coordinate.
DrawTextBlockNoAlign(layout, default_x, default_y, img_w, img_h, text_w, text_h) ==
    [x |-> IF layout.x # None THEN layout.x[1]
           ELSE IF default_x # None THEN default_x[1]
           ELSE (img_w - text_w) \div 2,
     y |-> IF layout.y # None THEN layout.y[1]
           ELSE IF default_y # None THEN default_y[1]
           ELSE img_h - text_h - 40,
     w |-> text_w, h |-> text_h]

\* A faulty placement that anchors the text on the bottom edge itself.
DrawTextBlockNoMargin(layout, default_x, default_y, img_w, img_h, text_w, text_h) ==
    [x |-> IF layout.x # None
           THEN (IF layout.right_align THEN img_w - layout.x[1] - text_w
                 ELSE layout.x[1])
           ELSE IF default_x # None THEN default_x[1]
           ELSE (img_w - text_w) \div 2,
     y |-> IF layout.y # None THEN layout.y[1]
           ELSE IF default_y # None THEN default_y[1]
           ELSE img_h - text_h,
     w |-> text_w, h |-> text_h]

\* _draw_text_block: the box (x, y, text_w, text_h) it returns.  Python's //
\* is the floor division, which is \div.
DrawTextBlock(layout, default_x, default_y, img_w, img_h, text_w, text_h) ==
    [x |-> IF layout.x # None
           THEN (IF layout.right_align THEN img_w - layout.x[1] - text_w
                 ELSE layout.x[1])
           ELSE IF default_x # None THEN default_x[1]
           ELSE (img_w - text_w) \div 2,
     y |-> IF layout.y # None THEN layout.y[1]
           ELSE IF default_y # None THEN default_y[1]
           ELSE img_h - text_h - 40,
     w |-> text_w, h |-> text_h]

(* ----------------------- error message matching ----------------------- *)

UpperCase ==
    <<"A", "B", "C", "D", "E", "F", "G", "H", "I", "J", "K", "L", "M",
      "N", "O", "P", "Q", "R", "S", "T", "U", "V", "W", "X", "Y", "Z">>

LowerCase ==
    <<"a", "b", "c", "d", "e", "f", "g", "h", "i", "j", "k", "l", "m",
      "n", "o", "p", "q", "r", "s", "t", "u", "v", "w", "x", "y", "z">>

LowerChar(c) ==
    IF \E k \in DOMAIN UpperCase : UpperCase[k] = c
    THEN LowerCase[CHOOSE k \in DOMAIN UpperCase : UpperCase[k] = c]
    ELSE c

\* str.lower() of a message given as its sequence of characters.
Lower(s) == [k \in DOMAIN s |-> LowerChar(s[k])]

\* needle in hay
Contains(hay, needle) ==
    \E k \in 0 .. (Len(hay) - Len(needle)) :
        SubSeq(hay, k + 1, k + Len(needle)) = needle

NEEDLE_INVALID ==
    <<"s", "t", "i", "c", "k", "e", "r", "s", "e", "t", "_", "i", "n", "v", "a", "l", "i", "d">>

NEEDLE_NOT_FOUND ==
    <<"s", "t", "i", "c", "k", "e", "r", "s", "e", "t", " ", "n", "o", "t", " ", "f", "o", "u", "n", "d">>

MSG_INVALID ==
    <<"S", "t", "i", "c", "k", "e", "r", "s", "e", "t", "_", "i", "n", "v", "a", "l", "i", "d">>

MSG_NOT_FOUND_UPPER ==
    <<"S", "T", "I", "C", "K", "E", "R", "S", "E", "T", " ", "N", "O", "T", " ", "F", "O", "U", "N", "D">>

MSG_PREFIXED ==
    <<"B", "a", "d", " ", "R", "e", "q", "u", "e", "s", "t", ":", " ", "S", "T", "I", "C", "K", "E", "R", "S", "E", "T", "_", "I", "N", "V", "A", "L", "I", "D">>

MSG_SPACED ==
    <<"S", "t", "i", "c", "k", "e", "r", " ", "s", "e", "t", " ", "n", "o", "t", " ", "f", "o", "u", "n", "d">>

MSG_CHAT ==
    <<"C", "h", "a", "t", " ", "n", "o", "t", " ", "f", "o", "u", "n", "d">>

MSG_TIMED_OUT ==
    <<"T", "i", "m", "e", "d", " ", "o", "u", "t">>

\* A faulty test that forgets the second pattern.
IsNotFoundOnePattern(message) == Contains(Lower(message), NEEDLE_INVALID)

\* "stickerset_invalid" in msg or "stickerset not found" in msg, with
\* msg = message.lower()
IsNotFound(message) ==
    \/ Contains(Lower(message), NEEDLE_INVALID)
    \/ Contains(Lower(message), NEEDLE_NOT_FOUND)

(* ------------------------------- state -------------------------------- *)

VARIABLES
    pc,            \* position of update_stickers
    env,           \* names of the environment variables that are set
    files,         \* files that exist on disk
    city_idx,      \* 1-based index of the city of the current iteration
    weather,       \* WeatherInfo of the last fetch (its icon_code)
    utc_now,       \* last value of datetime.utcnow()
    city_now,      \* utc_now + timedelta(hours=city.tz_offset_hours)
    day_text,
    month_text,
    time_text,
    bg,            \* result of the last _get_background_path call
    new_stickers,  \* list of InputSticker built by the loop
    remote,        \* the sticker set on the messaging platform
    old_stickers,  \* sticker_set.stickers as read by get_sticker_set
    i,             \* 0-based index of the reconciliation loops
    calls,         \* every remote call issued so far, in order
    log,           \* lines printed so far
    raised,        \* exception that ended the run, "" when none
    get_result,    \* how get_sticker_set ended: class and message
    drawn          \* last call of _draw_text_block: inputs and box

vars ==
    <<pc, env, files, city_idx, weather, utc_now, city_now, day_text,
      month_text, time_text, bg, new_stickers, remote, old_stickers, i,
      calls, log, raised, get_result, drawn>>

BotEnv ==
    {"BOT_TOKEN", "STICKER_SET_NAME", "STICKER_SET_TITLE", "TELEGRAM_USER_ID"}

AllEnv == BotEnv \cup {"WEATHER_API_KEY"}

\* Environments of the model: complete, or with one variable missing.
Envs == {AllEnv} \cup {AllEnv \ {v} : v \in AllEnv}

\* file_id values upload_sticker_file may return: fresh ones.
FreshIds == 101 .. (100 + NumCities)

InputSticker(file_id, emoji) ==
    [sticker |-> file_id, emoji_list |-> <<emoji>>, format |-> "static"]

StickerIds(stickers) == [k \in DOMAIN stickers |-> stickers[k].sticker]

\* One remote call: op, the city (0 when none), the old and new file_id
\* (0 when none), the sticker list of a create call and how it ended.
Call(op, city, old, new, stickers, res) ==
    [op |-> op, city |-> city, old |-> old, new |-> new,
     stickers |-> stickers, res |-> res]

NoTime == DateTime(0, 0, 0, 0, 0)

NoBg == [ok |-> FALSE, path |-> "", named |-> {}]

NoDraw ==
    [called |-> FALSE, layout |-> BlockLayout(None, None, 0, FALSE),
     default_x |-> None, default_y |-> None, img_w |-> 0, img_h |-> 0,
     box |-> [x |-> 0, y |-> 0, w |-> 0, h |-> 0]]

InitRun ==
    /\ pc = "start"
    /\ city_idx = 0
    /\ weather = [icon_code |-> ""]
    /\ utc_now = NoTime
    /\ city_now = NoTime
    /\ day_text = ""
    /\ month_text = ""
    /\ time_text = ""
    /\ bg = NoBg
    /\ new_stickers = <<>>
    /\ old_stickers = <<>>
    /\ i = 0
    /\ calls = <<>>
    /\ log = <<>>
    /\ raised = ""
    /\ get_result = [class |-> "", message |-> <<>>]
    /\ drawn = NoDraw

Init ==
    /\ InitRun
    /\ env \in Envs
    /\ files \in SUBSET BgFiles
    \* the set is absent, or holds 0 .. MaxOld stickers of file_id 1, 2, ...
    /\ remote \in
         {[exists |-> FALSE, stickers |-> <<>>]} \cup
         {[exists |-> TRUE, stickers |-> [k \in 1 .. n |-> k]] : n \in 0 .. MaxOld}

(* ------------------------- update_stickers ---------------------------- *)

City == CITIES[city_idx]

UnchangedCityLocals ==
    UNCHANGED <<weather, utc_now, city_now, day_text, month_text, time_text, bg>>

UnchangedReconcile == UNCHANGED <<remote, old_stickers, i, get_result>>

\* os.environ[...] of the four bot settings, then the loop is entered.
Start ==
    /\ pc = "start"
    /\ IF BotEnv \subseteq env
       THEN /\ pc' = "fetch"
            /\ city_idx' = 1
            /\ raised' = raised
       ELSE /\ pc' = "error"
            /\ city_idx' = city_idx
            /\ raised' = "KeyError"
    /\ UNCHANGED <<env, files, new_stickers, calls, log, drawn>>
    /\ UnchangedCityLocals
    /\ UnchangedReconcile

\* A faulty loop body that swallows the failure of a city and goes on.
PropagatesNever(ok) == FALSE

\* The loop body has no try: an exception of a city's fetch, compose or
\* upload leaves update_stickers.
Propagates(ok) == ~ok

FetchOutcomes ==
    {[ok |-> TRUE, icon_code |-> c] : c \in IconCodes}
        \cup {[ok |-> FALSE, icon_code |-> ""]}

\* weather = fetch_weather(city)
FetchWeather ==
    /\ pc = "fetch"
    /\ IF "WEATHER_API_KEY" \in env
       THEN \E out \in FetchOutcomes :
              /\ calls' = Append(calls,
                     Call("fetch", city_idx, 0, 0, <<>>,
                          IF out.ok THEN "ok" ELSE "HTTPError"))
              /\ IF Propagates(out.ok)
                 THEN /\ weather' = weather
                      /\ pc' = "error"
                      /\ raised' = "HTTPError"
                 ELSE /\ weather' = [icon_code |-> out.icon_code]
                      /\ pc' = "time"
                      /\ raised' = raised
       ELSE /\ calls' = calls
            /\ weather' = weather
            /\ pc' = "error"
            /\ raised' = "KeyError"
    /\ UNCHANGED <<env, files, city_idx, utc_now, city_now, day_text,
                   month_text, time_text, bg, new_stickers, log, drawn>>
    /\ UnchangedReconcile

\* utc_now .. time_text of the loop body
ComputeTime ==
    /\ pc = "time"
    /\ \E now \in UtcNows :
         /\ utc_now' = now
         /\ city_now' = AddHours(now, City.tz_offset_hours)
    /\ day_text' = StrfDay(city_now')
    /\ month_text' = StrfMonth(city_now')
    /\ time_text' = StrfTime(city_now')
    /\ pc' = "compose"
    /\ UNCHANGED <<env, files, city_idx, weather, bg, new_stickers, calls,
                   log, raised, drawn>>
    /\ UnchangedReconcile

\* generate_weather_image: the background is resolved and the picture is
\* saved as city.output
GenerateWeatherImage ==
    /\ pc = "compose"
    /\ bg' = GetBackgroundPath(weather.icon_code, files)
    /\ log' = IF weather.icon_code # "" /\ BgCandidate(weather.icon_code) \notin files
              THEN Append(log, "warn_bg") ELSE log
    /\ IF Propagates(bg'.ok)
       THEN /\ files' = files
            /\ pc' = "error"
            /\ raised' = "FileNotFoundError"
       ELSE /\ files' = IF bg'.ok THEN files \cup {City.output} ELSE files
            /\ pc' = "upload"
            /\ raised' = raised
    /\ UNCHANGED <<env, city_idx, weather, utc_now, city_now, day_text,
                   month_text, time_text, new_stickers, calls, drawn>>
    /\ UnchangedReconcile

UsedIds == {new_stickers[k].sticker : k \in DOMAIN new_stickers}

UploadOutcomes ==
    {[ok |-> TRUE, file_id |-> f] : f \in FreshIds \ UsedIds}
        \cup {[ok |-> FALSE, file_id |-> 0]}

\* new_stickers.append(...)
AddSticker(list, st) == Append(list, st)

\* upload_sticker_file, new_stickers.append and the step of the for loop
UploadSticker ==
    /\ pc = "upload"
    /\ \E out \in UploadOutcomes :
         /\ calls' = Append(calls,
                Call("upload", city_idx, 0, out.file_id, <<>>,
                     IF out.ok THEN "ok" ELSE "TelegramError"))
         /\ IF Propagates(out.ok)
            THEN /\ new_stickers' = new_stickers
                 /\ city_idx' = city_idx
                 /\ pc' = "error"
                 /\ raised' = "TelegramError"
            ELSE /\ new_stickers' =
                       IF out.ok
                       THEN AddSticker(new_stickers, InputSticker(out.file_id, City.emoji))
                       ELSE new_stickers
                 /\ city_idx' = IF city_idx < Len(CITIES) THEN city_idx + 1 ELSE city_idx
                 /\ pc' = IF city_idx < Len(CITIES) THEN "fetch" ELSE "get_set"
                 /\ raised' = raised
    /\ UNCHANGED <<env, files, log, drawn>>
    /\ UnchangedCityLocals
    /\ UnchangedReconcile

(* --------------------- set-level reconciliation ----------------------- *)

\* Messages a BadRequest of get_sticker_set carries in the model.
NotFoundMessages == {MSG_INVALID, MSG_NOT_FOUND_UPPER, MSG_PREFIXED}

OtherMessages == {MSG_SPACED, MSG_CHAT}

\* Outcomes of bot.get_sticker_set: the set when it exists, a BadRequest
\* (with a not-found message only when the set does not exist) or another
\* TelegramError, which is no BadRequest.
GetOutcomes ==
    (IF remote.exists THEN {[class |-> "ok", message |-> <<>>]} ELSE {})
    \cup (IF remote.exists THEN {}
          ELSE {[class |-> "BadRequest", message |-> m] : m \in NotFoundMessages})
    \cup {[class |-> "BadRequest", message |-> m] : m \in OtherMessages}
    \cup {[class |-> "TimedOut", message |-> MSG_TIMED_OUT]}

\* Outcomes of one replace, add, delete or create call.
ItemOutcomes == {"ok", "BadRequest", "TimedOut"}

\* Where the code goes once the replace loop is over.
AfterReplace(old_count, new_count) ==
    IF new_count > old_count THEN "add"
    ELSE IF old_count > new_count THEN "delete"
    ELSE "done"

\* A faulty handler that creates the set on every BadRequest.
OnGetErrorAlwaysCreate(out) ==
    IF out.class = "BadRequest" THEN "create" ELSE "error"

\* except BadRequest: create on a not-found message, re-raise otherwise;
\* any other exception propagates.
OnGetError(out) ==
    IF out.class = "BadRequest" /\ IsNotFound(out.message) THEN "create"
    ELSE "error"

\* sticker_set = await bot.get_sticker_set(set_name), its except clause
\* and old_stickers .. common
GetStickerSet ==
    /\ pc = "get_set"
    /\ \E out \in GetOutcomes :
         /\ calls' = Append(calls, Call("get", 0, 0, 0, <<>>, out.class))
         /\ get_result' = out
         /\ IF out.class = "ok"
            THEN /\ old_stickers' = remote.stickers
                 /\ pc' = IF Min(Len(remote.stickers), Len(new_stickers)) > 0
                          THEN "replace"
                          ELSE AfterReplace(Len(remote.stickers), Len(new_stickers))
                 /\ log' = IF pc' = "done" THEN Append(log, "updated") ELSE log
                 /\ raised' = raised
            ELSE /\ old_stickers' = old_stickers
                 /\ pc' = OnGetError(out)
                 /\ log' = IF out.class = "BadRequest"
                           THEN Append(log, "get_sticker_set error") ELSE log
                 /\ raised' = IF pc' = "error" THEN out.class ELSE raised
    /\ i' = 0
    /\ UNCHANGED <<env, files, city_idx, new_stickers, remote, drawn>>
    /\ UnchangedCityLocals

\* await bot.create_new_sticker_set(...); return
CreateNewStickerSet ==
    /\ pc = "create"
    /\ \E out \in ItemOutcomes :
         /\ calls' = Append(calls,
                Call("create", 0, 0, 0, StickerIds(new_stickers), out))
         /\ IF out = "ok"
            THEN /\ remote' = [exists |-> TRUE, stickers |-> StickerIds(new_stickers)]
                 /\ log' = Append(log, "created")
                 /\ pc' = "done"
                 /\ raised' = raised
            ELSE /\ remote' = remote
                 /\ log' = log
                 /\ pc' = "error"
                 /\ raised' = out
    /\ UNCHANGED <<env, files, city_idx, new_stickers, old_stickers, i,
                   get_result, drawn>>
    /\ UnchangedCityLocals

\* Effect of the platform's replace, add and delete on the stickers of the set.
RemoteReplace(stickers, old_id, new_id) ==
    [k \in DOMAIN stickers |-> IF stickers[k] = old_id THEN new_id ELSE stickers[k]]

RemoteAdd(stickers, new_id) == Append(stickers, new_id)

RemoteDelete(stickers, old_id) == SelectSeq(stickers, LAMBDA s : s # old_id)

\* A faulty pairing that replaces every old sticker with the first new one.
ReplaceArgsFirst(k) ==
    [old |-> old_stickers[k + 1], new |-> new_stickers[1].sticker]

\* old_id = old_stickers[i].file_id; new_st = new_stickers[i]
ReplaceArgs(k) ==
    [old |-> old_stickers[k + 1], new |-> new_stickers[k + 1].sticker]

\* except BadRequest of the three loops: TRUE when the exception leaves
\* update_stickers, which is the case of every exception but BadRequest.
OnItemError(out) == out \notin {"ok", "BadRequest"}

\* One iteration of: for i in range(common): replace_sticker_in_set
ReplaceStickerInSet ==
    /\ pc = "replace"
    /\ i < Min(Len(old_stickers), Len(new_stickers))
    /\ \E out \in ItemOutcomes :
         /\ calls' = Append(calls,
                Call("replace", 0, ReplaceArgs(i).old, ReplaceArgs(i).new, <<>>, out))
         /\ remote' = IF out = "ok"
                      THEN [remote EXCEPT !.stickers =
                               RemoteReplace(@, ReplaceArgs(i).old, ReplaceArgs(i).new)]
                      ELSE remote
         /\ IF OnItemError(out)
            THEN /\ pc' = "error"
                 /\ raised' = out
                 /\ i' = i
                 /\ log' = log
            ELSE /\ pc' = IF i + 1 < Min(Len(old_stickers), Len(new_stickers))
                          THEN "replace"
                          ELSE AfterReplace(Len(old_stickers), Len(new_stickers))
                 /\ raised' = raised
                 /\ i' = i + 1
                 /\ log' = log \o
                       <<IF out = "ok" THEN "replaced" ELSE "replace_sticker_in_set error">>
                       \o (IF pc' = "done" THEN <<"updated">> ELSE <<>>)
    /\ UNCHANGED <<env, files, city_idx, new_stickers, old_stickers,
                   get_result, drawn>>
    /\ UnchangedCityLocals

\* One iteration of: for i in range(common, new_count): add_sticker_to_set
AddStickerToSet ==
    /\ pc = "add"
    /\ i < Len(new_stickers)
    /\ \E out \in ItemOutcomes :
         /\ calls' = Append(calls,
                Call("add", 0, 0, new_stickers[i + 1].sticker, <<>>, out))
         /\ remote' = IF out = "ok"
                      THEN [remote EXCEPT !.stickers =
                               RemoteAdd(@, new_stickers[i + 1].sticker)]
                      ELSE remote
         /\ IF OnItemError(out)
            THEN /\ pc' = "error"
                 /\ raised' = out
                 /\ i' = i
                 /\ log' = log
            ELSE /\ pc' = IF i + 1 < Len(new_stickers) THEN "add" ELSE "done"
                 /\ raised' = raised
                 /\ i' = i + 1
                 /\ log' = log \o
                       <<IF out = "ok" THEN "added" ELSE "add_sticker_to_set error">>
                       \o (IF pc' = "done" THEN <<"updated">> ELSE <<>>)
    /\ UNCHANGED <<env, files, city_idx, new_stickers, old_stickers,
                   get_result, drawn>>
    /\ UnchangedCityLocals

\* One iteration of: for i in range(common, old_count): delete_sticker_from_set
DeleteStickerFromSet ==
    /\ pc = "delete"
    /\ i < Len(old_stickers)
    /\ \E out \in ItemOutcomes :
         /\ calls' = Append(calls,
                Call("delete", 0, old_stickers[i + 1], 0, <<>>, out))
         /\ remote' = IF out = "ok"
                      THEN [remote EXCEPT !.stickers =
                               RemoteDelete(@, old_stickers[i + 1])]
                      ELSE remote
         /\ IF OnItemError(out)
            THEN /\ pc' = "error"
                 /\ raised' = out
                 /\ i' = i
                 /\ log' = log
            ELSE /\ pc' = IF i + 1 < Len(old_stickers) THEN "delete" ELSE "done"
                 /\ raised' = raised
                 /\ i' = i + 1
                 /\ log' = log \o
                       <<IF out = "ok" THEN "deleted" ELSE "delete_sticker_from_set error">>
                       \o (IF pc' = "done" THEN <<"updated">> ELSE <<>>)
    /\ UNCHANGED <<env, files, city_idx, new_stickers, old_stickers,
                   get_result, drawn>>
    /\ UnchangedCityLocals

Next ==
    \/ Start
    \/ FetchWeather
    \/ ComputeTime
    \/ GenerateWeatherImage
    \/ UploadSticker
    \/ GetStickerSet
    \/ CreateNewStickerSet
    \/ ReplaceStickerInSet
    \/ AddStickerToSet
    \/ DeleteStickerFromSet

Spec == Init /\ [][Next]_vars

(* ------------------- _draw_text_block on its own ---------------------- *)

\* Layouts of the model: the six of the program and layouts with and
\* without x, y and right alignment.
Layouts ==
    {CITY_LAYOUT, TEMP_LAYOUT, DEGREE_LAYOUT, DAY_LAYOUT, MONTH_LAYOUT, TIME_LAYOUT}
    \cup {BlockLayout(x, y, 30, ra) :
            x \in {None, Some(0), Some(80)}, y \in {None, Some(30)}, ra \in BOOLEAN}

\* (img.width, img.height) of the backgrounds of the model.
ImageSizes == {<<512, 512>>, <<513, 300>>}

\* Width and height textbbox measures, wider than the image included.
TextWidths == {0, 37, 100, 515, 520}

TextHeights == {0, 20, 41}

InitDraw ==
    /\ InitRun
    /\ env = AllEnv
    /\ files = BgFiles
    /\ remote = [exists |-> FALSE, stickers |-> <<>>]

\* One call of _draw_text_block
DrawText ==
    /\ ~drawn.called
    /\ \E layout \in Layouts, default_x \in {None, Some(10)},
          default_y \in {None, Some(70)}, size \in ImageSizes,
          text_w \in TextWidths, text_h \in TextHeights :
         drawn' = [called |-> TRUE, layout |-> layout,
                   default_x |-> default_x, default_y |-> default_y,
                   img_w |-> size[1], img_h |-> size[2],
                   box |-> DrawTextBlock(layout, default_x, default_y,
                                         size[1], size[2], text_w, text_h)]
    /\ UNCHANGED <<pc, env, files, city_idx, weather, utc_now, city_now,
                   day_text, month_text, time_text, bg, new_stickers, remote,
                   old_stickers, i, calls, log, raised, get_result>>

NextDraw == DrawText

SpecDraw == InitDraw /\ [][NextDraw]_vars

(* ------------------------------ claims -------------------------------- *)

SetOps == {"get", "create", "replace", "add", "delete"}

ItemOps == {"replace", "add", "delete"}

\* The calls of the log whose op is in ops, in order.
CallsOf(ops) == SelectSeq(calls, LAMBDA c : c.op \in ops)

\* Each call reduced to what it was asked to do.
Asked(cs) == [k \in DOMAIN cs |-> [op |-> cs[k].op, old |-> cs[k].old, new |-> cs[k].new]]

GotSet == get_result.class = "ok"

Ended == pc \in {"done", "error"}

\* The calls the index-aligned diff of old and new asks for, in order.
Plan(old, new) ==
    [k \in 1 .. Min(Len(old), Len(new)) |->
        [op |-> "replace", old |-> old[k], new |-> new[k]]]
    \o [k \in 1 .. (IF Len(new) > Len(old) THEN Len(new) - Len(old) ELSE 0) |->
        [op |-> "add", old |-> 0, new |-> new[Len(old) + k]]]
    \o [k \in 1 .. (IF Len(old) > Len(new) THEN Len(old) - Len(new) ELSE 0) |->
        [op |-> "delete", old |-> old[Len(new) + k], new |-> 0]]

\* C1: once get-sticker-set has succeeded, the run issues exactly the calls
\* of the plan for old and new, in its order (one replace per common index,
\* then the adds or the deletes), and no create call.
C1_PlanIssued ==
    (GotSet /\ Ended) =>
        Asked(CallsOf(ItemOps \cup {"create"}))
            = Plan(old_stickers, StickerIds(new_stickers))

\* C1, for the runs that reach their normal end: the calls issued are
\* exactly those of the plan.
C1_PlanIssuedAtNormalEnd ==
    (GotSet /\ pc = "done") =>
        Asked(CallsOf(ItemOps \cup {"create"}))
            = Plan(old_stickers, StickerIds(new_stickers))

\* C1, at every moment: the calls issued so far are a prefix of the plan.
C1_PlanPrefix ==
    GotSet =>
        LET done == Asked(CallsOf(ItemOps \cup {"create"}))
            plan == Plan(old_stickers, StickerIds(new_stickers))
        IN  /\ Len(done) <= Len(plan)
            /\ done = SubSeq(plan, 1, Len(done))

FailedItemCalls == SelectSeq(calls, LAMBDA c : c.op \in ItemOps /\ c.res # "ok")

ErrorLines ==
    SelectSeq(log, LAMBDA l : l \in {"replace_sticker_in_set error",
                                     "add_sticker_to_set error",
                                     "delete_sticker_from_set error"})

\* C2: a failed replace, add or delete call, whatever the failure, is logged
\* and does not abort the run.
C2_ItemFailureNeverAborts ==
    /\ Len(ErrorLines) = Len(FailedItemCalls)
    /\ (Len(FailedItemCalls) > 0 => pc # "error")

\* C2, for the failures the code handles: a BadRequest of a replace, add
\* or delete call is logged and the run does not end in an error by it.
C2_BadRequestNeverAborts ==
    (\A k \in DOMAIN FailedItemCalls : FailedItemCalls[k].res = "BadRequest") =>
        /\ Len(ErrorLines) = Len(FailedItemCalls)
        /\ (GotSet => pc # "error")

\* The get-sticker-set error is of the not-found class: its message holds
\* one of the two patterns in some letter case.
NotFoundRaised ==
    /\ get_result.class = "BadRequest"
    /\ get_result.message \in {MSG_INVALID, MSG_NOT_FOUND_UPPER, MSG_PREFIXED}

\* C3: after a not-found error of get-sticker-set, the run issues exactly one
\* create call with the full ordered list of new stickers and stops; it
\* issues no replace, add or delete call.
C3_NotFoundCreates ==
    NotFoundRaised =>
        /\ CallsOf(ItemOps) = <<>>
        /\ pc \in {"create", "done", "error"}
        /\ (pc = "create" => CallsOf({"create"}) = <<>>)
        /\ (pc # "create" =>
              /\ Len(CallsOf({"create"})) = 1
              /\ calls[Len(calls)].op = "create"
              /\ calls[Len(calls)].stickers = StickerIds(new_stickers)
              /\ Len(calls[Len(calls)].stickers) = Len(CITIES)
              /\ (pc = "done") = (calls[Len(calls)].res = "ok"))

C3_Witness ==
    /\ NotFoundRaised
    /\ get_result.message = MSG_NOT_FOUND_UPPER
    /\ pc = "done"
    /\ Len(CallsOf({"create"})) = 1

\* C4: any other failure of get-sticker-set ends the run in an error with
\* that exception, and the run issues no create, replace, add or delete call.
C4_OtherGetErrorFatal ==
    (get_result.class \notin {"", "ok"} /\ ~NotFoundRaised) =>
        /\ pc = "error"
        /\ raised = get_result.class
        /\ calls[Len(calls)].op = "get"
        /\ CallsOf(ItemOps \cup {"create"}) = <<>>

C4_Witness ==
    /\ get_result.class = "BadRequest"
    /\ get_result.message = MSG_SPACED
    /\ pc = "error"

\* The background lookup of the current city has been made.
BgResolved ==
    \/ pc = "upload"
    \/ (pc = "error" /\ raised = "FileNotFoundError")

ExactBgExists ==
    weather.icon_code # "" /\ BgCandidate(weather.icon_code) \in files

\* C5: the background is bg_<iconCode>.png when the code is not empty and
\* the file exists, else bg_fallback.png when it exists, else bg_01d.png when
\* it exists; the lookup fails, naming the three candidates, only when none
\* of them exists.
C5_BackgroundOrder ==
    BgResolved =>
        /\ (ExactBgExists =>
              bg.ok /\ bg.path = "images/bg_" \o weather.icon_code \o ".png")
        /\ (~ExactBgExists /\ "images/bg_fallback.png" \in files =>
              bg.ok /\ bg.path = "images/bg_fallback.png")
        /\ (~ExactBgExists /\ "images/bg_fallback.png" \notin files
              /\ "images/bg_01d.png" \in files =>
              bg.ok /\ bg.path = "images/bg_01d.png")
        /\ (~ExactBgExists /\ "images/bg_fallback.png" \notin files
              /\ "images/bg_01d.png" \notin files =>
              /\ ~bg.ok
              /\ bg.named = {"images/bg_" \o weather.icon_code \o ".png",
                             "images/bg_fallback.png", "images/bg_01d.png"})
        /\ (bg.ok = (pc = "upload"))

C5_Witness ==
    /\ pc = "upload"
    /\ weather.icon_code = "02n"
    /\ "images/bg_02n.png" \notin files
    /\ "images/bg_fallback.png" \notin files
    /\ bg.path = "images/bg_01d.png"

\* The placement _draw_text_block was asked for.
XSet == drawn.layout.x # None

YSet == drawn.layout.y # None

\* The resolution of y: layout.y, else default_y, else 40 above the bottom.
YLadder ==
    /\ (YSet => drawn.box.y = drawn.layout.y[1])
    /\ (~YSet /\ drawn.default_y # None => drawn.box.y = drawn.default_y[1])
    /\ (~YSet /\ drawn.default_y = None =>
          drawn.box.y = drawn.img_h - drawn.box.h - 40)

\* The resolution of x while layout.x or default_x is given.
XLadderGiven ==
    /\ (XSet /\ ~drawn.layout.right_align => drawn.box.x = drawn.layout.x[1])
    /\ (XSet /\ drawn.layout.right_align =>
          /\ drawn.box.x = drawn.img_w - drawn.layout.x[1] - drawn.box.w
          /\ drawn.box.x + drawn.box.w = drawn.img_w - drawn.layout.x[1])
    /\ (~XSet /\ drawn.default_x # None => drawn.box.x = drawn.default_x[1])

\* x is exactly half of the free width.
CenteredExactly == 2 * drawn.box.x = drawn.img_w - drawn.box.w

\* x is half of the free width rounded down (toward minus infinity).
CenteredFloor ==
    /\ 2 * drawn.box.x <= drawn.img_w - drawn.box.w
    /\ drawn.img_w - drawn.box.w <= 2 * drawn.box.x + 1

\* C6 as stated: the ladder of x and y, with x = (imageWidth - w) / 2 when
\* neither layout.x nor default_x is given.
C6_LadderExactHalf ==
    drawn.called =>
        /\ XLadderGiven
        /\ (~XSet /\ drawn.default_x = None => CenteredExactly)
        /\ YLadder

\* C6 as amended: the same ladder, where the centred x is the floor of
\* (imageWidth - w) / 2.
C6_LadderFloorHalf ==
    drawn.called =>
        /\ XLadderGiven
        /\ (~XSet /\ drawn.default_x = None => CenteredFloor)
        /\ YLadder

C6_Witness ==
    /\ drawn.called
    /\ drawn.layout.x = None
    /\ drawn.default_x = None
    /\ drawn.layout.y = None
    /\ drawn.default_y = None
    /\ drawn.img_w = 512
    /\ drawn.box.w = 515
    /\ drawn.box.x = -2

\* C7 as stated: a layout with x = None and y = None is centred and ends
\* 40 pixels above the bottom edge.
C7_NoneIsCenteredBottom ==
    (drawn.called /\ ~XSet /\ ~YSet) =>
        /\ CenteredExactly
        /\ drawn.box.y + drawn.box.h = drawn.img_h - 40

\* C7 as amended: with x = None and y = None and no default_x and default_y
\* from the caller, x is the floor of (imageWidth - w) / 2 and the box ends
\* 40 pixels above the bottom edge.
C7_NoneNoDefaultsCenteredBottom ==
    (drawn.called /\ ~XSet /\ ~YSet
        /\ drawn.default_x = None /\ drawn.default_y = None) =>
        /\ CenteredFloor
        /\ drawn.box.y + drawn.box.h = drawn.img_h - 40

C7_Witness ==
    /\ drawn.called
    /\ ~XSet
    /\ ~YSet
    /\ drawn.default_x = None
    /\ drawn.default_y = None
    /\ drawn.img_w = 513
    /\ drawn.img_h = 300
    /\ drawn.box = [x |-> 206, y |-> 240, w |-> 100, h |-> 20]

RECURSIVE DaysBeforeMonth(_, _)
DaysBeforeMonth(y, m) ==
    IF m <= 1 THEN 0 ELSE DaysBeforeMonth(y, m - 1) + DaysInMonth(y, m - 1)

RECURSIVE DaysBeforeYear(_)
DaysBeforeYear(y) ==
    IF y <= 2024 THEN 0
    ELSE DaysBeforeYear(y - 1) + (IF IsLeap(y - 1) THEN 366 ELSE 365)

\* Minutes from 2024-01-01T00:00 to dt.
Minutes(dt) ==
    ((DaysBeforeYear(dt.year) + DaysBeforeMonth(dt.year, dt.month) + dt.day - 1) * 24
        + dt.hour) * 60 + dt.minute

TimeComputed == pc = "compose"

TheInstant == utc_now = DateTime(2024, 12, 7, 20, 55) /\ City.tz_offset_hours = 5

\* C8 as stated: at UTC 2024-12-07T20:55 a city of offset +5 gets the
\* strings day "07", month "Dec", time "01:55".
C8_StringsDay07 ==
    (TimeComputed /\ TheInstant) =>
        day_text = "07" /\ month_text = "Dec" /\ time_text = "01:55"

\* C8 as amended: the strings are those of UTC now plus the offset in hours;
\* at UTC 2024-12-07T20:55 a city of offset +5 gets day "08", month "Dec",
\* time "01:55".
C8_StringsDay08 ==
    TimeComputed =>
        /\ Minutes(city_now) = Minutes(utc_now) + 60 * City.tz_offset_hours
        /\ city_now.hour \in 0 .. 23
        /\ city_now.day \in 1 .. DaysInMonth(city_now.year, city_now.month)
        /\ (TheInstant =>
              day_text = "08" /\ month_text = "Dec" /\ time_text = "01:55")
        /\ (utc_now = DateTime(2024, 12, 31, 23, 30) /\ City.tz_offset_hours = 5 =>
              day_text = "01" /\ month_text = "Jan" /\ time_text = "04:30")
        /\ (utc_now = DateTime(2024, 2, 28, 19, 0) /\ City.tz_offset_hours = 5 =>
              day_text = "29" /\ month_text = "Feb" /\ time_text = "00:00")
        /\ (utc_now = DateTime(2025, 6, 15, 10, 5) /\ City.tz_offset_hours = 5 =>
              day_text = "15" /\ month_text = "Jun" /\ time_text = "15:05")

C8_Witness ==
    /\ TimeComputed
    /\ TheInstant
    /\ city_now = DateTime(2024, 12, 8, 1, 55)
    /\ day_text = "08"

CityCalls == CallsOf({"fetch", "upload"})

\* A fetch, compose or upload of a city has failed.
CityFailed ==
    \/ raised \in {"HTTPError", "FileNotFoundError", "TelegramError"}
    \/ (raised = "KeyError" /\ city_idx >= 1)
    \/ \E k \in DOMAIN CityCalls : CityCalls[k].res # "ok"

\* C9: the cities are fetched and uploaded one after the other in the
\* configured order, every sticker-set call comes after the upload of the
\* last city, and a failed fetch, compose or upload ends the run in an error
\* with no later city processed and no sticker-set call issued.
C9_SequentialFailFast ==
    /\ \A j \in DOMAIN CityCalls :
          /\ CityCalls[j].city = (j + 1) \div 2
          /\ CityCalls[j].op = (IF j % 2 = 1 THEN "fetch" ELSE "upload")
          /\ (j < Len(CityCalls) => CityCalls[j].res = "ok")
    /\ Len(CityCalls) <= 2 * Len(CITIES)
    /\ calls = CityCalls \o CallsOf(SetOps)
    /\ (CallsOf(SetOps) # <<>> =>
          /\ Len(CityCalls) = 2 * Len(CITIES)
          /\ CityCalls[Len(CityCalls)].res = "ok")
    /\ (CityFailed =>
          /\ pc = "error"
          /\ CallsOf(SetOps) = <<>>
          /\ Len(CityCalls) <= 2 * city_idx)

C9_Witness ==
    /\ pc = "error"
    /\ raised = "TelegramError"
    /\ city_idx = 1
    /\ Len(calls) = 2
    /\ Len(CITIES) > 1

OkUploads == SelectSeq(calls, LAMBDA c : c.op = "upload" /\ c.res = "ok")

C10_OnePerCity ==
    /\ Len(new_stickers) = Len(OkUploads)
    /\ \A k \in DOMAIN new_stickers :
          /\ OkUploads[k].city = k
          /\ new_stickers[k] = InputSticker(OkUploads[k].new, CITIES[k].emoji)
    /\ (pc \in {"get_set", "create", "replace", "add", "delete", "done"} =>
          Len(new_stickers) = Len(CITIES))

C10_RemoteIsNew ==
    (pc = "done" /\ GotSet /\ FailedItemCalls = <<>>) =>
        /\ remote.exists
        /\ Len(remote.stickers) = Len(new_stickers)
        /\ \A k \in DOMAIN new_stickers : remote.stickers[k] = new_stickers[k].sticker

C10_AppendOnly ==
    /\ Len(new_stickers') >= Len(new_stickers)
    /\ SubSeq(new_stickers', 1, Len(new_stickers)) = new_stickers

\* C10: new_stickers only grows at its end and holds one entry per city in
\* the configured order; when the set existed and every replace, add and
\* delete call succeeded, the remote set at the end of the run is
\* new_stickers, entry by entry.
C10_RemoteMatchesNew ==
    /\ [](C10_OnePerCity /\ C10_RemoteIsNew)
    /\ [][C10_AppendOnly]_vars

C10_Witness ==
    /\ pc = "done"
    /\ GotSet
    /\ FailedItemCalls = <<>>
    /\ Len(old_stickers) > Len(new_stickers)
    /\ remote.stickers = StickerIds(new_stickers)
    /\ Len(CallsOf({"delete"})) > 0

====
